---- MODULE Spec2Model ----
(***************************************************************************)
(* xknxproject: opening a .knxproj archive (xknxproject/zip/extractor.py)  *)
(* and the scoped block KNXProj.parse runs on it (xknxproject/knxproj.py). *)
(*                                                                         *)
(* One behaviour is one `with extract(archive_path, password) as c: ...`.  *)
(* The archive and the password are the inputs, fixed by Init.  Strings    *)
(* are TLA+ strings, so names, paths and namespaces are built and taken    *)
(* apart character by character as the Python code does.                   *)
(***************************************************************************)
EXTENDS Integers, Sequences, FiniteSets, TLC

(***************************************************************************)
(* Bounds of the input space.                                              *)
(***************************************************************************)
\* signature entries in the outer container
MaxSigs == 2
\* lines of knx_master.xml
MaxLines == 3
\* characters of the namespace's last path segment
MaxSegLen == 2
\* open_project_0 / open_project_meta calls inside one scoped block
MaxCalls == 2

(***************************************************************************)
(* Python str helpers.                                                     *)
(***************************************************************************)
CharAt(s, i) == SubSeq(s, i, i)

startswith(s, p) == Len(s) >= Len(p) /\ SubSeq(s, 1, Len(p)) = p

endswith(s, p) == Len(s) >= Len(p) /\ SubSeq(s, Len(s) - Len(p) + 1, Len(s)) = p

removesuffix(s, p) == IF endswith(s, p) THEN SubSeq(s, 1, Len(s) - Len(p)) ELSE s

\* namespace.split("/")[-1]: what follows the last "/", the whole string
\* when there is none
LastSegment(s) ==
    LET slashes == {i \in 1..Len(s) : CharAt(s, i) = "/"}
        last == IF slashes = {} THEN 0
                ELSE CHOOSE i \in slashes : \A j \in slashes : j <= i
    IN SubSeq(s, last + 1, Len(s))

Digits == {"0", "1", "2", "3", "4", "5", "6", "7", "8", "9"}

DigitValue(c) ==
    CASE c = "0" -> 0 [] c = "1" -> 1 [] c = "2" -> 2 [] c = "3" -> 3
      [] c = "4" -> 4 [] c = "5" -> 5 [] c = "6" -> 6 [] c = "7" -> 7
      [] c = "8" -> 8 [] c = "9" -> 9

\* int(s) raises ValueError: over the characters used here (digits and
\* letters) that is the empty string and any string with a non-digit
IntRaisesValueError(s) ==
    s = "" \/ \E i \in 1..Len(s) : CharAt(s, i) \notin Digits

RECURSIVE IntValue(_)
IntValue(s) ==
    IF s = "" THEN 0
    ELSE 10 * IntValue(SubSeq(s, 1, Len(s) - 1)) + DigitValue(CharAt(s, Len(s)))

(***************************************************************************)
(* Exceptions.                                                             *)
(***************************************************************************)
NoException == "none"

InvalidPasswordException == "InvalidPasswordException"
ProjectNotFoundException == "ProjectNotFoundException"
UnexpectedFileContent == "UnexpectedFileContent"

\* isinstance(e, RuntimeError): the builtin hierarchy puts
\* NotImplementedError and RecursionError under RuntimeError;
\* zipfile.BadZipFile, KeyError, ValueError, UnboundLocalError are not
IsRuntimeError(kind) ==
    kind \in {"RuntimeError", "NotImplementedError", "RecursionError"}

\* errors the ZIP library raises when an inner-container entry cannot be
\* decrypted
DecryptionErrors == {"RuntimeError", "NotImplementedError", "BadZipFile"}

(***************************************************************************)
(* xknxproject.util / xknxproject.const                                    *)
(***************************************************************************)
ETS_4_2_SCHEMA_VERSION == 11

ETS_6_SCHEMA_VERSION == 21

is_ets4_project(schema_version) == schema_version <= ETS_4_2_SCHEMA_VERSION

is_ets6_project(schema_version) == schema_version >= ETS_6_SCHEMA_VERSION

(***************************************************************************)
(* The archive on disk: the outer ZIP container (zipfile.ZipFile) with its *)
(* entry names in listing order, the lines of knx_master.xml, and the      *)
(* container stored in the entry "<project_id>.zip" of a protected         *)
(* project.                                                                *)
(***************************************************************************)
ProjectIds == {"P-1", "P-2"}

MetaNames == {"Project.xml", "project.xml"}

Range(seq) == {seq[i] : i \in 1..Len(seq)}

\* signature entries: sequences of distinct project ids
SigSeqs ==
    {q \in UNION {[1..n -> ProjectIds] : n \in 0..MaxSigs} :
        \A i, j \in 1..Len(q) : i # j => q[i] # q[j]}

SegChars == {"1", "2", "x"}

RECURSIVE Segments(_)
Segments(n) ==
    IF n = 0 THEN {""}
    ELSE Segments(n - 1) \cup {s \o c : s \in Segments(n - 1), c \in SegChars}

NamespacePrefix == "http://knx.org/xml/project/"

Namespaces == {NamespacePrefix \o seg : seg \in Segments(MaxSegLen)}

\* a line of knx_master.xml: its text and whether its bytes decode as UTF-8
TextLine(text) == [text |-> text, decodable |-> TRUE]

FirstLine == TextLine("<?xml version=\"1.0\"?>")

\* the lines after line 2: they carry an xmlns attribute of their own
LaterLine == TextLine("<MasterData xmlns=\"http://knx.org/late/11\">")

SecondLines ==
    {TextLine("<KNX xmlns=\"" \o ns \o "\">") : ns \in Namespaces}
    \cup {TextLine("<KNX CreatedBy=\"ETS\">"),
          [text |-> "<KNX xmlns=\"?\">", decodable |-> FALSE]}

Masters ==
    {<<>>, <<FirstLine>>}
    \cup {<<FirstLine, l>> : l \in SecondLines}
    \cup UNION {{<<FirstLine, l>> \o [i \in 1..n |-> LaterLine] : l \in SecondLines} :
                  n \in 1..(MaxLines - 2)}

\* the container in "<project_id>.zip": how its entries were encrypted
\* (legacy ZIP stream cipher or WinZip AES), under which password, and
\* whether the stored bytes are still what the producer wrote
InnerStates == {"intact", "corrupt", "notzip"}

InnerSchemes == {"ZipCrypto", "AES"}

ArchivePassword == "secret"

NoInner == [state |-> "absent", scheme |-> "none"]

Inners == [state : InnerStates, scheme : InnerSchemes]

\* the entry names of the outer container in listing order
Infolist(sigs, zipId, metaName) ==
    LET plain(id) == IF id = zipId THEN <<id \o ".zip">>
                     ELSE <<id \o "/0.xml", id \o "/" \o metaName>>
        RECURSIVE files(_)
        files(q) == IF q = <<>> THEN <<>> ELSE plain(Head(q)) \o files(Tail(q))
    IN <<"knx_master.xml">> \o [i \in 1..Len(sigs) |-> sigs[i] \o ".signature"]
       \o files(sigs)
       \o (IF zipId \in ProjectIds /\ zipId \notin Range(sigs)
           THEN <<zipId \o ".zip">> ELSE <<>>)

Archives ==
    {[infolist |-> Infolist(sigs, zipId, metaName), master |-> master,
      metaName |-> metaName, inner |-> inner] :
        sigs \in SigSeqs, zipId \in ProjectIds \cup {"-"}, metaName \in MetaNames,
        master \in Masters, inner \in Inners \cup {NoInner}}

\* archives as the authoring tool writes them: an inner container exactly
\* when some "<id>.zip" entry holds one
WellFormed(a) ==
    (a.inner = NoInner) <=> ~(\E id \in ProjectIds : id \o ".zip" \in Range(a.infolist))

\* password: str | None
NoPassword == [given |-> FALSE, text |-> ""]

Str(text) == [given |-> TRUE, text |-> text]

PasswordInputs == {NoPassword, Str(""), Str(ArchivePassword), Str("wrong")}

\* Python truthiness of `password`
Truthy(pw) == pw.given /\ pw.text # ""

(***************************************************************************)
(* extractor.py: the functions extract() calls.  A function that can raise *)
(* returns [exc, value]; exc = NoException means it returned value.        *)
(***************************************************************************)
Returned(v) == [exc |-> NoException, value |-> v]

Raised(kind) == [exc |-> kind, value |-> ""]

\* the first entry of the listing named P-*.signature, without the suffix
_get_project_id(infolist) ==
    LET hits == {i \in 1..Len(infolist) :
                    startswith(infolist[i], "P-") /\ endswith(infolist[i], ".signature")}
    IN IF hits = {} THEN Raised(ProjectNotFoundException)
       ELSE LET first == CHOOSE i \in hits : \A j \in hits : i <= j
            IN Returned(removesuffix(infolist[first], ".signature"))

\* re.match(r".+ xmlns=\"(.+?)\"", text): "" stands for no match (the group
\* never matches the empty string).  The greedy ".+" takes the last
\* ' xmlns="' that has a character before it and a closing quote at least
\* one character after it; the lazy group ends at the first such quote.
ReMatchNamespace(text) ==
    LET key == " xmlns=\""
        n == Len(text)
        closes(i) == {j \in (i + Len(key) + 1)..n : CharAt(text, j) = "\""}
        starts == {i \in 2..n : i + Len(key) - 1 <= n
                                /\ SubSeq(text, i, i + Len(key) - 1) = key
                                /\ closes(i) # {}}
    IN IF starts = {} THEN ""
       ELSE LET i == CHOOSE a \in starts : \A b \in starts : b <= a
                j == CHOOSE a \in closes(i) : \A b \in closes(i) : a <= b
            IN SubSeq(text, i + Len(key), j - 1)

\* the for loop over the lines of knx_master.xml from line `line_number`
\* on: `namespace` is "" while the local is unbound.  Returns the exception
\* raised, the namespace and the number of lines taken off the stream.
RECURSIVE ScanLines(_, _, _)
ScanLines(master, line_number, namespace) ==
    IF line_number > Len(master)
    THEN IF namespace = ""
         THEN [exc |-> "UnboundLocalError", value |-> "", lines_read |-> Len(master)]
         ELSE [exc |-> NoException, value |-> namespace, lines_read |-> Len(master)]
    ELSE IF line_number = 2
         THEN LET line == master[2]
                  match == IF line.decodable THEN ReMatchNamespace(line.text) ELSE ""
              IN IF match = ""
                 THEN [exc |-> UnexpectedFileContent, value |-> "", lines_read |-> 2]
                 ELSE ScanLines(master, line_number + 1, match)
         ELSE ScanLines(master, line_number + 1, namespace)

_get_xml_namespace(master) == ScanLines(master, 1, "")

\* a variant that swallows the ValueError and goes on with version 0
GetSchemaVersionSwallowing(namespace) ==
    LET segment == LastSegment(namespace)
    IN [exc |-> NoException,
        value |-> IF IntRaisesValueError(segment) THEN 0 ELSE IntValue(segment)]

_get_schema_version(namespace) ==
    LET segment == LastSegment(namespace)
    IN IF IntRaisesValueError(segment) THEN [exc |-> UnexpectedFileContent, value |-> 0]
       ELSE [exc |-> NoException, value |-> IntValue(segment)]

\* the bytes handed to setpassword(): password.encode("utf-8") in the
\* legacy branch, base64(PBKDF2-HMAC-SHA256(password.encode("utf-16-le")))
\* in the ETS6 branch
Utf8Password(text) == [kdf |-> "none", encoding |-> "utf-8", text |-> text]

_generate_ets6_zip_password(text) ==
    [kdf |-> "base64(PBKDF2HMAC(SHA256, 32, 21.project.ets.knx.org, 65536))",
     encoding |-> "utf-16-le", text |-> text]

\* a variant that selects the branch with the predicate open_project_meta uses
ProjectArchiveByEts4(schema_version, text) ==
    IF is_ets4_project(schema_version)
    THEN [cls |-> "ZipFile", pwd |-> Utf8Password(text)]
    ELSE [cls |-> "AESZipFile", pwd |-> _generate_ets6_zip_password(text)]

\* _extract_protected_project_file: the container class and the password
\* bytes the schema version selects
ProjectArchiveFor(schema_version, text) ==
    IF ~is_ets6_project(schema_version)
    THEN [cls |-> "ZipFile", pwd |-> Utf8Password(text)]
    ELSE [cls |-> "AESZipFile", pwd |-> _generate_ets6_zip_password(text)]

\* KNXProjContents.open_project_meta: the file name the schema version selects
ProjectFilename(schema_version) ==
    IF is_ets4_project(schema_version) THEN "Project.xml" ELSE "project.xml"

(***************************************************************************)
(* The ZIP library (zipfile.ZipFile.open, pyzipper.AESZipFile.open) on the *)
(* inner container: the set of outcomes of opening entry `name` with       *)
(* reader [cls, pwd].  "stream" is a stream whose bytes read back as       *)
(* written; "badstream" is a stream that fails its CRC / HMAC check with   *)
(* BadZipFile when it is read; any other outcome is the error open raises. *)
(* A key that is not the producer's is rejected by the password check of   *)
(* open (RuntimeError) unless the check bytes collide (1 byte for the      *)
(* stream cipher, 2 for AES), and then the stream is garbage.              *)
(***************************************************************************)
ProducerKey(inner) ==
    IF inner.scheme = "AES" THEN _generate_ets6_zip_password(ArchivePassword)
    ELSE Utf8Password(ArchivePassword)

InnerOpen(inner, metaName, reader, name) ==
    IF name \notin {"0.xml", metaName} THEN {"KeyError"}
    ELSE IF reader.cls = "ZipFile" /\ inner.scheme = "AES" THEN {"NotImplementedError"}
    ELSE IF reader.pwd # ProducerKey(inner) THEN {"RuntimeError", "badstream"}
    ELSE IF inner.state = "corrupt" THEN {"badstream"}
    ELSE {"stream"}

\* zipfile.ZipFile.open on the outer container, whose entries are not
\* encrypted
OuterOpen(infolist, name) ==
    IF name \in Range(infolist) THEN {"stream"} ELSE {"KeyError"}

(***************************************************************************)
(* State of one `with extract(archive_path, password) as contents:`        *)
(***************************************************************************)
VARIABLES
    archive,          \* the file at archive_path
    password,         \* the password argument
    pc,               \* where control is
    handles,          \* each handle: "unopened", "open" or "closed"
    closeLog,         \* the handles closed, in the order they were closed
    project_id,       \* extract(): project_id
    xml_namespace,    \* extract(): xml_namespace
    lines_read,       \* lines of knx_master.xml taken off its stream
    schema_version,   \* extract(): schema_version (line 93), -1 while unset
    project_archive,  \* the inner container object: class and password set
    contents,         \* the KNXProjContents yielded to the caller
    requests,         \* the opens open_project_* asked of a container, in order
    streams,          \* the streams open_project_* returned, in call order
    calls,            \* open_project_* calls made in the block
    raised,           \* the exception as first raised: [kind, origin]
    result            \* what the with statement ended with

vars == <<archive, password, pc, handles, closeLog, project_id, xml_namespace,
          lines_read, schema_version, project_archive, contents, requests, streams,
          calls, raised, result>>

\* "outer": ZipFile(archive_path); "entry": the stream archive_zip.open(info);
\* "inner": the ZipFile / AESZipFile built on that stream
HandleNames == {"outer", "entry", "inner"}

NoReader == [cls |-> "none", pwd |-> Utf8Password("")]

NoContents ==
    [project_archive |-> "none", project_relative_path |-> "", xml_namespace |-> ""]

NothingRaised == [kind |-> NoException, origin |-> "none"]

\* exceptions the caller's own code raises inside the block
CallerErrors == {"RuntimeError", "ValueError"}

Done == pc \in {"returned", "raised"}

Init ==
    /\ archive \in {a \in Archives : WellFormed(a)}
    /\ password \in PasswordInputs
    /\ pc = "start"
    /\ handles = [h \in HandleNames |-> "unopened"]
    /\ closeLog = <<>>
    /\ project_id = ""
    /\ xml_namespace = ""
    /\ lines_read = 0
    /\ schema_version = -1
    /\ project_archive = NoReader
    /\ contents = NoContents
    /\ requests = <<>>
    /\ streams = <<>>
    /\ calls = 0
    /\ raised = NothingRaised
    /\ result = NoException

\* leaving `with ZipFile(archive_path) as zip_archive` (line 69): the outer
\* handle is closed, whatever is leaving
CloseOuter ==
    /\ handles' = [handles EXCEPT !["outer"] = "closed"]
    /\ closeLog' = Append(closeLog, "outer")

\* an exception raised before the yield: it leaves extract() through the
\* with statement of line 69
Abort(kind, origin) ==
    /\ pc' = "raised"
    /\ raised' = [kind |-> kind, origin |-> origin]
    /\ result' = kind

\* line 69
OpenOuter ==
    /\ pc = "start"
    /\ pc' = "opened"
    /\ handles' = [handles EXCEPT !["outer"] = "open"]
    /\ UNCHANGED <<archive, password, closeLog, project_id, xml_namespace, lines_read,
                   schema_version, project_archive, contents, requests, streams, calls, raised,
                   result>>

\* line 70
GetProjectId ==
    /\ pc = "opened"
    /\ LET r == _get_project_id(archive.infolist)
       IN IF r.exc # NoException
          THEN /\ Abort(r.exc, "locator")
               /\ CloseOuter
               /\ UNCHANGED project_id
          ELSE /\ pc' = "located"
               /\ project_id' = r.value
               /\ UNCHANGED <<handles, closeLog, raised, result>>
    /\ UNCHANGED <<archive, password, xml_namespace, lines_read, schema_version,
                   project_archive, contents, requests, streams, calls>>

\* line 71
GetXmlNamespace ==
    /\ pc = "located"
    /\ LET r == _get_xml_namespace(archive.master)
       IN /\ lines_read' = r.lines_read
          /\ IF r.exc # NoException
             THEN /\ Abort(r.exc, "sniffer")
                  /\ CloseOuter
                  /\ UNCHANGED xml_namespace
             ELSE /\ pc' = "sniffed"
                  /\ xml_namespace' = r.value
                  /\ UNCHANGED <<handles, closeLog, raised, result>>
    /\ UNCHANGED <<archive, password, project_id, schema_version, project_archive,
                   contents, requests, streams, calls>>

\* lines 73-82: zip_archive.getinfo(project_id + ".zip") raises KeyError or not
PasswordProtected == project_id \o ".zip" \in Range(archive.infolist)

\* lines 85-90: the KNXProjContents of an unprotected project
UnprotectedContents ==
    [project_archive |-> "outer",
     project_relative_path |-> project_id \o "/",
     xml_namespace |-> xml_namespace]

\* a variant that keeps the project-id prefix inside the inner container
ProtectedContentsPrefixed ==
    [project_archive |-> "inner",
     project_relative_path |-> project_id \o "/",
     xml_namespace |-> xml_namespace]

\* lines 99-104: the KNXProjContents of a protected project
ProtectedContents ==
    [project_archive |-> "inner",
     project_relative_path |-> "",
     xml_namespace |-> xml_namespace]

\* lines 84-91: not protected, the block is entered on the outer container
YieldUnprotected ==
    /\ pc = "sniffed"
    /\ ~PasswordProtected
    /\ pc' = "block"
    /\ contents' = UnprotectedContents
    /\ UNCHANGED <<archive, password, handles, closeLog, project_id, xml_namespace,
                   lines_read, schema_version, project_archive, requests, streams, calls, raised,
                   result>>

\* line 93
GetSchemaVersion ==
    /\ pc = "sniffed"
    /\ PasswordProtected
    /\ LET r == _get_schema_version(xml_namespace)
       IN IF r.exc # NoException
          THEN /\ Abort(r.exc, "resolver")
               /\ CloseOuter
               /\ UNCHANGED schema_version
          ELSE /\ pc' = "versioned"
               /\ schema_version' = r.value
               /\ UNCHANGED <<handles, closeLog, raised, result>>
    /\ UNCHANGED <<archive, password, project_id, xml_namespace, lines_read,
                   project_archive, contents, requests, streams, calls>>

\* a variant that tests `password is None` instead of its truthiness
PasswordIsNone(pw) == ~pw.given

\* line 121
PasswordRequired(pw) == ~Truthy(pw)

\* a variant without the except clauses
ExceptNothing(kind) == kind

\* lines 130-131 and 139-140: what an exception raised inside either try
\* block, the yield included, leaves _extract_protected_project_file as
ExceptRuntimeError(kind) ==
    IF IsRuntimeError(kind) THEN InvalidPasswordException ELSE kind

\* lines 94-104 with 117-138: entering _extract_protected_project_file up to
\* its yield, and the yield of extract() on the container it hands over
EnterProtected ==
    /\ pc = "versioned"
    /\ IF PasswordRequired(password)
       THEN /\ Abort(InvalidPasswordException, "password_required")
            /\ CloseOuter
            /\ UNCHANGED <<project_archive, contents>>
       ELSE IF archive.inner.state = "notzip"
       THEN \* ZipFile(...) / AESZipFile(...) raises BadZipFile, which the
            \* except RuntimeError clause does not catch
            /\ pc' = "raised"
            /\ raised' = [kind |-> "BadZipFile", origin |-> "container"]
            /\ result' = ExceptRuntimeError("BadZipFile")
            /\ handles' = [handles EXCEPT !["entry"] = "open", !["outer"] = "closed"]
            /\ closeLog' = Append(closeLog, "outer")
            /\ UNCHANGED <<project_archive, contents>>
       ELSE /\ pc' = "block"
            /\ handles' = [handles EXCEPT !["entry"] = "open", !["inner"] = "open"]
            /\ project_archive' = ProjectArchiveFor(schema_version, password.text)
            /\ contents' = ProtectedContents
            /\ UNCHANGED <<closeLog, raised, result>>
    /\ UNCHANGED <<archive, password, project_id, xml_namespace, lines_read,
                   schema_version, requests, streams, calls>>

(***************************************************************************)
(* The caller's block.  Its caller is KNXProj.parse: whatever is raised    *)
(* inside the block leaves it.                                             *)
(***************************************************************************)
\* an exception is raised inside the block
RaiseInBlock(kind, origin) ==
    /\ pc' = "block_exc"
    /\ raised' = [kind |-> kind, origin |-> origin]

\* self._project_archive.open(name, mode="r"): the outcomes
ContentsOpen(name) ==
    IF contents.project_archive = "outer" THEN OuterOpen(archive.infolist, name)
    ELSE InnerOpen(archive.inner, archive.metaName, project_archive, name)

\* what the call of open_project_* does with outcome `o` of opening `name`
OpenEntry(fn, name, o) ==
    /\ calls' = calls + 1
    /\ requests' = Append(requests, [fn |-> fn, container |-> contents.project_archive,
                                     name |-> name])
    /\ IF o \in {"stream", "badstream"}
       THEN /\ streams' = Append(streams, [container |-> contents.project_archive,
                                           name |-> name,
                                           damaged |-> (o = "badstream"),
                                           state |-> "open"])
            /\ UNCHANGED <<pc, raised>>
       ELSE /\ RaiseInBlock(o, IF o = "KeyError" THEN "lookup" ELSE "decrypt")
            /\ UNCHANGED streams

\* KNXProjContents.open_project_0, lines 44-49
open_project_0 ==
    /\ pc = "block"
    /\ calls < MaxCalls
    /\ LET name == contents.project_relative_path \o "0.xml"
       IN \E o \in ContentsOpen(name) : OpenEntry("open_project_0", name, o)
    /\ UNCHANGED <<archive, password, handles, closeLog, project_id, xml_namespace,
                   lines_read, schema_version, project_archive, contents, result>>

\* KNXProjContents.open_project_meta, lines 51-60
open_project_meta ==
    /\ pc = "block"
    /\ calls < MaxCalls
    /\ LET v == _get_schema_version(contents.xml_namespace)
       IN IF v.exc # NoException
          THEN /\ calls' = calls + 1
               /\ RaiseInBlock(v.exc, "resolver")
               /\ UNCHANGED <<requests, streams>>
          ELSE LET name == contents.project_relative_path \o ProjectFilename(v.value)
               IN \E o \in ContentsOpen(name) : OpenEntry("open_project_meta", name, o)
    /\ UNCHANGED <<archive, password, handles, closeLog, project_id, xml_namespace,
                   lines_read, schema_version, project_archive, contents, result>>

\* the caller reads a stream it was handed to its end: the CRC / HMAC check
\* of a damaged stream raises BadZipFile
ReadStream ==
    /\ pc = "block"
    /\ \E i \in 1..Len(streams) :
          /\ streams[i].state = "open"
          /\ IF streams[i].damaged
             THEN /\ streams' = [streams EXCEPT ![i].state = "failed"]
                  /\ RaiseInBlock("BadZipFile", "decrypt")
             ELSE /\ streams' = [streams EXCEPT ![i].state = "read"]
                  /\ UNCHANGED <<pc, raised>>
    /\ UNCHANGED <<archive, password, handles, closeLog, project_id, xml_namespace,
                   lines_read, schema_version, project_archive, contents, requests, calls, result>>

\* the caller's own code raises (XMLParser(...).parse(), knxproj.py line 27)
CallerRaises ==
    /\ pc = "block"
    /\ \E kind \in CallerErrors : RaiseInBlock(kind, "caller")
    /\ UNCHANGED <<archive, password, handles, closeLog, project_id, xml_namespace,
                   lines_read, schema_version, project_archive, contents, requests, streams, calls,
                   result>>

(***************************************************************************)
(* Leaving the block: contextmanager.__exit__ resumes the generators.      *)
(* _extract_protected_project_file has no statement after its yield and no *)
(* finally: it closes nothing.  extract() leaves the with of line 69.      *)
(***************************************************************************)
\* what an exception thrown in at the yield of extract() leaves it as
ExceptionLeavingExtract(kind) ==
    IF contents.project_archive = "inner" THEN ExceptRuntimeError(kind) ELSE kind

\* the handles extract() closes when the block is left
ClosedOnExit == <<"outer">>

ReleaseHandles ==
    /\ handles' = [h \in HandleNames |->
                     IF h \in Range(ClosedOnExit) /\ handles[h] = "open"
                     THEN "closed" ELSE handles[h]]
    /\ closeLog' = closeLog \o SelectSeq(ClosedOnExit, LAMBDA h : handles[h] = "open")

\* the block ends normally
ExitBlock ==
    /\ pc = "block"
    /\ pc' = "returned"
    /\ result' = NoException
    /\ ReleaseHandles
    /\ UNCHANGED <<archive, password, project_id, xml_namespace, lines_read,
                   schema_version, project_archive, contents, requests, streams, calls, raised>>

\* the block is left by the exception raised in it
ExitBlockByException ==
    /\ pc = "block_exc"
    /\ pc' = "raised"
    /\ result' = ExceptionLeavingExtract(raised.kind)
    /\ ReleaseHandles
    /\ UNCHANGED <<archive, password, project_id, xml_namespace, lines_read,
                   schema_version, project_archive, contents, requests, streams, calls, raised>>

\* after the with statement: nothing in extract() closed the inner container
\* or the entry stream under it; the interpreter's finalizers
\* (ZipFile.__del__, IOBase.__del__) do, at a time of their own, the
\* container before the stream it holds
Finalize ==
    /\ Done
    /\ \E h \in {"inner", "entry"} :
          /\ handles[h] = "open"
          /\ h = "entry" => handles["inner"] # "open"
          /\ handles' = [handles EXCEPT ![h] = "closed"]
          /\ closeLog' = Append(closeLog, h)
    /\ UNCHANGED <<archive, password, pc, project_id, xml_namespace, lines_read,
                   schema_version, project_archive, contents, requests, streams, calls, raised,
                   result>>

Next ==
    \/ OpenOuter
    \/ GetProjectId
    \/ GetXmlNamespace
    \/ YieldUnprotected
    \/ GetSchemaVersion
    \/ EnterProtected
    \/ open_project_0
    \/ open_project_meta
    \/ ReadStream
    \/ CallerRaises
    \/ ExitBlock
    \/ ExitBlockByException
    \/ Finalize

Spec == Init /\ [][Next]_vars

(***************************************************************************)
(* Properties                                                              *)
(***************************************************************************)
\* line 93 has been passed: the project is protected and its namespace
\* yielded a schema version
ProtectedBranch == schema_version >= 0

\* a non-empty password that is not the archive's
WrongPassword == Truthy(password) /\ password.text # ArchivePassword

\* _extract_protected_project_file has been entered and left or suspended
PastEnter == pc \notin {"start", "opened", "located", "sniffed", "versioned"}

\* C1 as stated: with a wrong non-empty password on a protected (intact)
\* archive, entering extract() fails with InvalidPasswordException; the
\* block is never entered and no KNXProjContents or stream is handed over.
C1_ExtractFailsOnEntry ==
    (ProtectedBranch /\ WrongPassword /\ archive.inner.state = "intact" /\ PastEnter)
        => /\ pc = "raised"
           /\ result = InvalidPasswordException
           /\ contents = NoContents
           /\ streams = <<>>

\* C1 amended: with a wrong non-empty password on a protected archive whose
\* inner entry is a ZIP container, extract() itself succeeds in both
\* branches: the block is entered on a KNXProjContents over the inner
\* container.  The password is tested only when an entry is opened inside the
\* block; the RuntimeError of that check leaves the with statement as
\* InvalidPasswordException, InvalidPasswordException is seen only after a
\* RuntimeError was raised inside the block, and no stream handed over reads
\* back to its end.
C1_WrongPasswordFailsInsideBlock ==
    (ProtectedBranch /\ WrongPassword /\ archive.inner.state # "notzip" /\ PastEnter)
        => /\ contents.project_archive = "inner"
           /\ handles["inner"] # "unopened"
           /\ \A i \in 1..Len(streams) :
                 streams[i].damaged /\ streams[i].state # "read"
           /\ (pc = "raised" /\ raised.origin = "decrypt" /\ raised.kind = "RuntimeError")
                 => result = InvalidPasswordException
           /\ result = InvalidPasswordException
                 => pc = "raised" /\ IsRuntimeError(raised.kind)
                    /\ raised.origin \in {"decrypt", "caller"}

\* C1 witness: AES branch, wrong password, the password check of an open
\* inside the block failed and the caller got InvalidPasswordException
C1_Witness ==
    /\ ProtectedBranch /\ WrongPassword
    /\ project_archive.cls = "AESZipFile"
    /\ pc = "raised" /\ result = InvalidPasswordException
    /\ raised = [kind |-> "RuntimeError", origin |-> "decrypt"]
    /\ contents.project_archive = "inner"

\* C2 as stated: once control is back at the caller, on every exit path,
\* no container handle that was opened is still open, and when the inner
\* container was opened it was closed before the outer one.
C2_HandlesClosedInnerFirst ==
    Done => /\ handles["outer"] # "open"
            /\ handles["inner"] # "open"
            /\ handles["inner"] # "unopened"
                  => \E i, j \in 1..Len(closeLog) :
                        i < j /\ closeLog[i] = "inner" /\ closeLog[j] = "outer"

\* C3 as stated: a failure of decrypting an entry of the inner container
\* reaches the caller as InvalidPasswordException and as nothing else.
C3_DecryptFailureIsInvalidPassword ==
    (pc = "raised" /\ raised.origin = "decrypt" /\ raised.kind \in DecryptionErrors)
        => result = InvalidPasswordException

\* C4: on a protected archive whose namespace yields a schema version, a
\* password that is None or empty makes extract() fail with
\* InvalidPasswordException before the "<project_id>.zip" entry is opened,
\* before an inner container is built and before anything is decrypted, in
\* both branches.
C4_PasswordRequiredBeforeOpening ==
    (ProtectedBranch /\ ~Truthy(password))
        => /\ handles["entry"] = "unopened"
           /\ handles["inner"] = "unopened"
           /\ project_archive = NoReader
           /\ contents = NoContents
           /\ requests = <<>> /\ streams = <<>>
           /\ PastEnter => /\ pc = "raised"
                           /\ result = InvalidPasswordException
                           /\ raised.kind = InvalidPasswordException

\* C4 witness: the empty password on a protected ETS6 project was refused
C4_Witness ==
    /\ ProtectedBranch /\ password = Str("")
    /\ is_ets6_project(schema_version)
    /\ pc = "raised" /\ result = InvalidPasswordException

\* the namespace was sniffed and its last segment is not an integer
BadVersion ==
    /\ pc \notin {"start", "opened", "located"}
    /\ xml_namespace # ""
    /\ IntRaisesValueError(LastSegment(xml_namespace))

\* C5 as stated: whenever the namespace's last segment is not an integer,
\* protected or not, extract() itself is aborted with UnexpectedFileContent
\* and the block is never entered.
C5_BadVersionAbortsExtract ==
    (BadVersion /\ pc # "sniffed")
        => /\ pc = "raised"
           /\ result = UnexpectedFileContent
           /\ contents = NoContents

\* C5 amended: the schema version is resolved after the protection probe and
\* only for a protected archive, and there extract() is aborted with
\* UnexpectedFileContent before anything of the inner container is opened.
\* For an unprotected archive the block is entered on the outer container;
\* open_project_meta never gets as far as opening an entry, and the
\* UnexpectedFileContent it raises leaves the with statement unchanged.
C5_BadVersionByProtection ==
    (BadVersion /\ pc # "sniffed")
        => IF PasswordProtected
           THEN /\ pc = "raised"
                /\ result = UnexpectedFileContent
                /\ raised.origin = "resolver"
                /\ contents = NoContents
                /\ handles["entry"] = "unopened"
           ELSE /\ contents.project_archive = "outer"
                /\ \A i \in 1..Len(requests) : requests[i].fn = "open_project_0"
                /\ raised.origin = "resolver"
                      => /\ raised.kind = UnexpectedFileContent
                         /\ pc = "raised" => result = UnexpectedFileContent

\* C5 witness: unprotected archive, the block was entered and
\* open_project_meta raised UnexpectedFileContent inside it
C5_Witness ==
    /\ BadVersion /\ ~PasswordProtected
    /\ contents.project_archive = "outer"
    /\ pc = "raised" /\ raised.origin = "resolver"
    /\ result = UnexpectedFileContent

\* no namespace can be taken off line 2 of knx_master.xml
NoNamespaceOnLine2(master) ==
    \/ Len(master) < 2
    \/ ~master[2].decodable
    \/ ReMatchNamespace(master[2].text) = ""

\* C6 as stated: whenever no namespace can be taken off line 2 (no matching
\* attribute, undecodable line, fewer than two lines), extract() fails with
\* UnexpectedFileContent and with nothing else.
C6_NoNamespaceIsUnexpectedFileContent ==
    (pc \notin {"start", "opened", "located"} /\ raised.origin # "locator"
     /\ NoNamespaceOnLine2(archive.master))
        => pc = "raised" /\ result = UnexpectedFileContent

\* C7: the presence of "<project_id>.zip" fixes the container and the paths:
\* absent, both accessors open "<project_id>/0.xml" and
\* "<project_id>/<meta file>" in the outer container; present, they open
\* "0.xml" and "<meta file>" in the inner container and never in the outer.
C7_ContainerAndPaths ==
    PastEnter =>
        /\ \A i \in 1..Len(requests) :
              LET r == requests[i]
                  prefix == IF PasswordProtected THEN "" ELSE project_id \o "/"
              IN /\ r.container = IF PasswordProtected THEN "inner" ELSE "outer"
                 /\ \/ r.fn = "open_project_0" /\ r.name = prefix \o "0.xml"
                    \/ r.fn = "open_project_meta"
                       /\ r.name \in {prefix \o m : m \in MetaNames}
        /\ \A i \in 1..Len(streams) :
              streams[i].container = IF PasswordProtected THEN "inner" ELSE "outer"

\* C7 witness: a protected project whose two files were both asked of the
\* inner container, one of them read to its end
C7_Witness ==
    /\ PasswordProtected
    /\ \E i, j \in 1..Len(requests) :
          requests[i].fn = "open_project_0" /\ requests[j].fn = "open_project_meta"
    /\ \E i \in 1..Len(streams) : streams[i].state = "read"

LegacyCipher ==
    project_archive.cls = "ZipFile" /\ project_archive.pwd = Utf8Password(password.text)

AesCipher ==
    /\ project_archive.cls = "AESZipFile"
    /\ project_archive.pwd = _generate_ets6_zip_password(password.text)

\* the names open_project_meta asked for
MetaRequests ==
    {requests[i].name : i \in {k \in 1..Len(requests) : requests[k].fn = "open_project_meta"}}

C9_NothingReadAfterLine2 == lines_read <= 2

\* C10 as stated: an exception the caller's own code raises inside the
\* block reaches the caller with its kind unchanged, protected or not.
C10_CallerErrorUnchanged ==
    (pc = "raised" /\ raised.origin = "caller") => result = raised.kind

====
